---- MODULE Spec2Model ----
(***************************************************************************)
(* A model of pysolr 3.0.0 (src/pysolr.py): the Solr client's request      *)
(* dispatch (_select, _mlt, _suggest_terms, _update, _send_request), its   *)
(* error extraction (_extract_error, _scrape_response), the result         *)
(* parsing of search / more_like_this, the add message builder and the     *)
(* sanitize helper.                                                        *)
(*                                                                         *)
(* Texts are sequences of tokens (a token is a character or an atomic      *)
(* literal such as "<html>"); bytes are numbers 0..255.  An optional       *)
(* Python value (None or a value) is the empty or the one-element tuple.   *)
(***************************************************************************)
EXTENDS Naturals, Integers, Sequences, FiniteSets, TLC

VARIABLES
    pc,         \* "idle", "sent" (the transport has been invoked), "done"
    call,       \* the client call in progress: operation and arguments
    request,    \* what _send_request handed to the transport, if anything
    signal,     \* what the transport answered: "none", "response", "timeout", "refused"
    response,   \* the HTTP response, when signal = "response"
    outcome,    \* what the call gave its caller: a value or a raised error
    sends,      \* transport invocations made by the call in progress
    calls,      \* client calls started so far
    totalSends, \* transport invocations made so far, over all calls
    data,       \* sanitize: the payload handed to sanitize
    fixed,      \* sanitize: what sanitize returned for it
    refixed,    \* sanitize: what sanitize returned for its own output
    docs,       \* add: the caller's documents
    boost,      \* add: the caller's boost mapping (None, or a sequence of entries)
    message,    \* add: the message add built, if it has run
    wire,       \* _to_python: the value handed to _to_python
    native,     \* _to_python: what _to_python returned or raised for it
    markup,     \* unescape_html: the text handed to unescape_html
    plain       \* unescape_html: what unescape_html returned or raised for it

dispatchVars == <<pc, call, request, signal, response, outcome, sends, calls, totalSends>>
sanitizeVars == <<data, fixed, refixed>>
addVars == <<docs, boost, message>>
\* the state of the helpers that take no part in a client call
pureVars == <<sanitizeVars, wire, native, markup, plain>>
vars == <<dispatchVars, pureVars, addVars>>

----------------------------------------------------------------------------
(* Bounds of the model *)

\* client calls in one behaviour
MaxCalls == 2
\* how far below and above the select threshold the encoded lengths range
Slack == 1
\* non-ASCII characters in a query text
MaxWide == 1
\* bytes in a payload handed to sanitize
MaxLen == 3
\* entries of a multi-valued field
MaxEntries == 2
\* items of an array handed to _to_python
MaxItems == 2
\* pieces of a text handed to unescape_html
MaxPieces == 2

----------------------------------------------------------------------------
(* Optional values and small helpers *)

None == <<>>
Some(v) == <<v>>
IsNone(o) == Len(o) = 0
Get(o) == o[1]

RECURSIVE SeqSum(_)
SeqSum(s) == IF s = <<>> THEN 0 ELSE Head(s) + SeqSum(Tail(s))

RECURSIVE SetToSeq(_)
SetToSeq(S) == IF S = {} THEN <<>>
               ELSE LET x == CHOOSE y \in S : TRUE IN <<x>> \o SetToSeq(S \ {x})

----------------------------------------------------------------------------
(* sanitize: REPLACEMENTS and the replacement loop *)

\* the bytes of the (bad, good) pairs, in the order of the table; good is ''
REPLACEMENTS_NoVerticalTab ==
    << <<0, <<>>>>, <<1, <<>>>>, <<2, <<>>>>, <<3, <<>>>>, <<4, <<>>>>,
       <<5, <<>>>>, <<6, <<>>>>, <<7, <<>>>>, <<8, <<>>>>,
       <<12, <<>>>>, <<14, <<>>>>, <<15, <<>>>>, <<16, <<>>>>,
       <<17, <<>>>>, <<18, <<>>>>, <<19, <<>>>>, <<20, <<>>>>, <<21, <<>>>>,
       <<22, <<>>>>, <<23, <<>>>>, <<24, <<>>>>, <<25, <<>>>>, <<26, <<>>>>,
       <<27, <<>>>>, <<28, <<>>>>, <<29, <<>>>>, <<30, <<>>>>, <<31, <<>>>> >>

REPLACEMENTS ==
    << <<0, <<>>>>, <<1, <<>>>>, <<2, <<>>>>, <<3, <<>>>>, <<4, <<>>>>,
       <<5, <<>>>>, <<6, <<>>>>, <<7, <<>>>>, <<8, <<>>>>,
       <<11, <<>>>>, <<12, <<>>>>, <<14, <<>>>>, <<15, <<>>>>, <<16, <<>>>>,
       <<17, <<>>>>, <<18, <<>>>>, <<19, <<>>>>, <<20, <<>>>>, <<21, <<>>>>,
       <<22, <<>>>>, <<23, <<>>>>, <<24, <<>>>>, <<25, <<>>>>, <<26, <<>>>>,
       <<27, <<>>>>, <<28, <<>>>>, <<29, <<>>>>, <<30, <<>>>>, <<31, <<>>>> >>

RECURSIVE Replace(_, _, _)
\* s.replace(bad, good) for a one-element bad: every occurrence, left to right
Replace(s, bad, good) ==
    IF s = <<>> THEN <<>>
    ELSE (IF Head(s) = bad THEN good ELSE <<Head(s)>>) \o Replace(Tail(s), bad, good)

RECURSIVE ReplaceAll(_, _)
\* the loop of sanitize: one replace per pair of the table, in table order
ReplaceAll(s, table) ==
    IF table = <<>> THEN s
    ELSE ReplaceAll(Replace(s, Head(table)[1], Head(table)[2]), Tail(table))

sanitize(payload) == ReplaceAll(payload, REPLACEMENTS)

\* payloads: every ASCII byte alone, and short mixes of control bytes, tab,
\* newline, carriage return, space and 'h'
AsciiBytes == 0 .. 127
SampleBytes == {0, 8, 9, 10, 11, 13, 14, 31, 32, 104}
RECURSIVE SeqsUpTo(_, _)
SeqsUpTo(S, n) ==
    IF n = 0 THEN {<<>>}
    ELSE LET shorter == SeqsUpTo(S, n - 1)
         IN shorter \cup {Append(t, x) : t \in {u \in shorter : Len(u) = n - 1}, x \in S}
Payloads == SeqsUpTo(SampleBytes, MaxLen) \cup {<<b>> : b \in AsciiBytes}

InitSanitizeIdle == data = <<>> /\ fixed = None /\ refixed = None
InitSanitize == data \in Payloads /\ fixed = None /\ refixed = None

\* sanitize(data)
Sanitize ==
    /\ fixed = None
    /\ fixed' = Some(sanitize(data))
    /\ UNCHANGED <<data, refixed>>

\* sanitize(sanitize(data))
SanitizeAgain ==
    /\ fixed # None
    /\ refixed = None
    /\ refixed' = Some(sanitize(Get(fixed)))
    /\ UNCHANGED <<data, fixed>>

----------------------------------------------------------------------------
(* Python values of documents, and the value conversions *)

\* byte texts used as field names and values
T_id == <<105, 100>>                    \* 'id'
T_tags == <<116, 97, 103, 115>>         \* 'tags'
T_boost == <<98, 111, 111, 115, 116>>   \* 'boost'
T_a == <<97>>                           \* 'a'
T_b == <<98>>                           \* 'b'
T_1 == <<49>>                           \* '1'
T_None == <<78, 111, 110, 101>>         \* 'None'
T_True == <<84, 114, 117, 101>>         \* 'True'
T_true == <<116, 114, 117, 101>>        \* 'true'
T_false == <<102, 97, 108, 115, 101>>   \* 'false'
T_Z == <<90>>                           \* 'Z'
T_midnight == <<84, 48, 48, 58, 48, 48, 58, 48, 48, 90>>  \* 'T00:00:00Z'
T_2_0 == <<50, 46, 48>>                 \* '2.0'
T_1_5 == <<49, 46, 53>>                 \* '1.5'

\* a Python value: its type, its text (unicode(value), or isoformat() for a
\* date) and, for a list, its entries
PyNone == [t |-> "none", v |-> T_None, items |-> <<>>]
PyUnicode(s) == [t |-> "unicode", v |-> s, items |-> <<>>]
PyInt(s) == [t |-> "int", v |-> s, items |-> <<>>]
PyBool(b) == [t |-> "bool", v |-> IF b THEN T_True ELSE <<70, 97, 108, 115, 101>>, items |-> <<>>]
PyList(items) == [t |-> "list", v |-> <<>>, items |-> items]

\* hasattr(value, '__iter__'): lists, tuples and other containers, not texts
HasIter(value) == value.t \in {"list", "tuple", "set"}

_from_python(value) ==
    IF value.t \in {"date", "datetime"}
    THEN (IF value.t = "datetime" THEN value.v \o T_Z ELSE value.v \o T_midnight)
    ELSE IF value.t = "bool"
    THEN (IF value.v = T_True THEN T_true ELSE T_false)
    ELSE value.v

_is_null_value(value) ==
    \/ value.t = "none"
    \/ (value.t \in {"unicode", "str"} /\ Len(value.v) = 0)

----------------------------------------------------------------------------
(* add: the message builder *)

\* a boost mapping: None, or a function from key texts to weights; a weight
\* has a type ("float" as the caller gave it, "str" once add has converted it)
\* and its text
NoBoost == [given |-> FALSE, map |-> <<>>]
BoostOf(m) == [given |-> TRUE, map |-> m]
Weight(ty, s) == [t |-> ty, v |-> s]

\* `boost and k in boost`, for a text key or an entry value
BoostTruthy(b) == b.given /\ DOMAIN b.map # {}
KeyInBoost(k, b) == BoostTruthy(b) /\ k \in DOMAIN b.map
ValueInBoost(v, b) == v.t \in {"unicode", "str"} /\ KeyInBoost(v.v, b)

\* boost[k] = str(boost[k])
StrBoost(b, k) == [b EXCEPT !.map = [b.map EXCEPT ![k] = Weight("str", b.map[k].v)]]

\* ET.Element('field', name=key[, boost=...]) with its text
Field(key, fboost, text) == [name |-> key, boost |-> fboost, text |-> text]

RECURSIVE AddEntries(_, _, _, _)
\* the loop over the entries of an iterable value: the fields appended to the
\* doc element and the boost mapping afterwards
AddEntries(key, value, rest, b) ==
    IF rest = <<>> THEN [fields |-> <<>>, boost |-> b]
    ELSE LET v == Head(rest) IN
         IF _is_null_value(value)
         THEN AddEntries(key, value, Tail(rest), b)
         ELSE LET hit == ValueInBoost(v, b)
                  b1 == IF hit THEN StrBoost(b, v.v) ELSE b
                  f == Field(key, IF hit THEN Some(b1.map[v.v].v) ELSE None, _from_python(v))
                  more == AddEntries(key, value, Tail(rest), b1)
              IN [fields |-> <<f>> \o more.fields, boost |-> more.boost]

RECURSIVE AddFields(_, _)
\* the loop over doc.items(): the doc element's boost attribute, its fields
\* and the boost mapping afterwards
AddFields(items, b) ==
    IF items = <<>> THEN [dboost |-> None, fields |-> <<>>, boost |-> b]
    ELSE LET key == Head(items)[1]
             value == Head(items)[2]
         IN IF key = T_boost
            THEN LET more == AddFields(Tail(items), b)
                 \* d.set('boost', str(value))
                 IN [more EXCEPT !.dboost = IF IsNone(more.dboost) THEN Some(value.v) ELSE more.dboost]
            ELSE IF HasIter(value)
            THEN LET these == AddEntries(key, value, value.items, b)
                     more == AddFields(Tail(items), these.boost)
                 IN [more EXCEPT !.fields = these.fields \o more.fields]
            ELSE IF _is_null_value(value)
            THEN AddFields(Tail(items), b)
            ELSE LET hit == KeyInBoost(key, b)
                     b1 == IF hit THEN StrBoost(b, key) ELSE b
                     f == Field(key, IF hit THEN Some(b1.map[key].v) ELSE None, _from_python(value))
                     more == AddFields(Tail(items), b1)
                 IN [more EXCEPT !.fields = <<f>> \o more.fields]

RECURSIVE AddDocs(_, _)
\* the loop over docs: the doc elements and the boost mapping afterwards
AddDocs(ds, b) ==
    IF ds = <<>> THEN [docs |-> <<>>, boost |-> b]
    ELSE LET d == AddFields(Head(ds), b)
             more == AddDocs(Tail(ds), d.boost)
         IN [docs |-> <<[boost |-> d.dboost, fields |-> d.fields]>> \o more.docs,
             boost |-> more.boost]

\* the add element built by add: `if commitWithin: message.set(...)`, then
\* one doc element per document
AddMessage(ds, b, commitWithin) ==
    [tag |-> "add", by |-> "", attr |-> None, text |-> <<>>,
     commitWithin |-> commitWithin, docs |-> AddDocs(ds, b).docs]

----------------------------------------------------------------------------
(* Request parameters and safe_urlencode *)

\* Solr.url, as given to the constructor
SolrUrl == "http://localhost:8983/solr"

\* the length of the encoded parameters from which _select posts
SELECT_LIMIT == 1024

\* a parameter text is known by its numbers of characters that quote_plus
\* keeps as one character (letters, digits, a space turned into '+') and of
\* non-ASCII characters of three UTF-8 bytes, each byte encoded as %XX
Text(n, w) == [plain |-> n, wide |-> w]
QuoteLen(t) == t.plain + 9 * t.wide
JsonText == Text(4, 0)

\* a parameter map is a function from keys to sequences of texts (a text
\* value is encoded like a list of one text)
NoParams == [k \in {} |-> <<>>]
Param(k, v) == [x \in {k} |-> v]
\* dict.update
Update(p, more) ==
    [k \in DOMAIN p \cup DOMAIN more |-> IF k \in DOMAIN more THEN more[k] ELSE p[k]]

RECURSIVE PairLens(_, _)
\* the lengths of the key=value pairs urlencode(params, doseq) produces
PairLens(p, keys) ==
    IF keys = <<>> THEN <<>>
    ELSE LET k == Head(keys)
         IN [i \in 1 .. Len(p[k]) |-> Len(k) + 1 + QuoteLen(p[k][i])]
            \o PairLens(p, Tail(keys))

\* safe_urlencode(params, True): the encoded string, known by the parameters
\* it encodes and its length (the pairs joined by '&')
safe_urlencode(p) ==
    LET lens == PairLens(p, SetToSeq(DOMAIN p))
    IN [params |-> p,
        len |-> SeqSum(lens) + (IF Len(lens) > 0 THEN Len(lens) - 1 ELSE 0)]

----------------------------------------------------------------------------
(* Requests *)

\* a path: its literal part, the encoded parameters appended to it (if any),
\* and the query variables of an update path
Path(lit, enc, qvars) == [literal |-> lit, enc |-> enc, vars |-> qvars]

NoBody == [kind |-> "none", form |-> None, xml |-> None]
FormBody(enc) == [kind |-> "form", form |-> Some(enc), xml |-> None]
XmlBody(m) == [kind |-> "xml", form |-> None, xml |-> Some(m)]

\* _create_full_url
_create_full_url(path) == [base |-> SolrUrl, path |-> path]

\* what _send_request hands to requests.<method>
Request(method, path, body, ctype) ==
    [method |-> method, url |-> _create_full_url(path), body |-> body, ctype |-> ctype]

\* `len(params_encoded) < 1024`, the typical case of _select
FitsInUrl_AtLimit(enc) == enc.len <= SELECT_LIMIT
FitsInUrl(enc) == enc.len < SELECT_LIMIT

\* _select: params['wt'] = 'json', then GET or POST by the encoded length
_select(params) ==
    LET enc == safe_urlencode(Update(params, Param("wt", <<JsonText>>)))
    IN IF FitsInUrl(enc)
       THEN Request("get", Path("select/?", Some(enc), <<>>), NoBody, "")
       ELSE Request("post", Path("select/", None, <<>>), FormBody(enc),
                    "application/x-www-form-urlencoded; charset=utf-8")

_mlt(params) ==
    LET enc == safe_urlencode(Update(params, Param("wt", <<JsonText>>)))
    IN Request("get", Path("mlt/?", Some(enc), <<>>), NoBody, "")

_suggest_terms(params) ==
    LET enc == safe_urlencode(Update(params, Param("wt", <<JsonText>>)))
    IN Request("get", Path("terms/?", Some(enc), <<>>), NoBody, "")

\* str(bool(x)).lower() for an argument that is not None
BoolToken(x) == IF x = "True" THEN "true" ELSE "false"

\* the keyword arguments of the update operations as the caller gives them:
\* "unset" (left out), "None", "True" or "False"
CommitDefault_None(x) == IF x = "unset" THEN "None" ELSE x
CommitDefault(x) == IF x = "unset" THEN "True" ELSE x
WaitDefault(x) == IF x = "unset" THEN "None" ELSE x

\* the query_vars of _update, from the values its parameters have
QueryVars(commit, waitFlush, waitSearcher) ==
    (IF commit # "None" THEN <<"commit=" \o BoolToken(commit)>> ELSE <<>>)
    \o (IF waitFlush # "None" THEN <<"waitFlush=" \o BoolToken(waitFlush)>> ELSE <<>>)
    \o (IF waitSearcher # "None" THEN <<"waitSearcher=" \o BoolToken(waitSearcher)>> ELSE <<>>)

\* sanitize(message): the message's literal markup holds no control byte, so
\* sanitize acts on the texts the caller supplied
SanitizeMessage(m) ==
    [m EXCEPT !.text = sanitize(m.text),
              !.docs = [i \in 1 .. Len(m.docs) |->
                          [m.docs[i] EXCEPT !.fields =
                              [j \in 1 .. Len(m.docs[i].fields) |->
                                  [m.docs[i].fields[j] EXCEPT !.name = sanitize(m.docs[i].fields[j].name),
                                                               !.text = sanitize(m.docs[i].fields[j].text)]]]]]

\* _update with clean_ctrl_chars left at True; commit, waitFlush and
\* waitSearcher are the values of its parameters ("None", "True", "False")
_update(m, commit, waitFlush, waitSearcher) ==
    Request("post",
            Path("update/", None, QueryVars(commit, waitFlush, waitSearcher)),
            XmlBody(SanitizeMessage(m)),
            "text/xml; charset=utf-8")

\* the messages of delete, commit and optimize: literal markup around a text
Message(tag, by, attr, text) ==
    [tag |-> tag, by |-> by, attr |-> attr, text |-> text, commitWithin |-> None, docs |-> <<>>]

----------------------------------------------------------------------------
(* Texts of responses: sequences of characters *)

\* str.lower(), on the letters the model's texts use
Lower(c) ==
    CASE c = "A" -> "a" [] c = "C" -> "c" [] c = "J" -> "j" [] c = "M" -> "m"
      [] c = "N" -> "n" [] c = "F" -> "f" [] c = "R" -> "r" [] c = "E" -> "e"
      [] c = "S" -> "s" [] c = "G" -> "g" [] OTHER -> c
LowerText(s) == [i \in 1 .. Len(s) |-> Lower(s[i])]

\* `sub in s`
Contains(sub, s) ==
    \E i \in 1 .. (Len(s) + 1) : i + Len(sub) - 1 <= Len(s) /\ SubSeq(s, i, i + Len(sub) - 1) = sub

RECURSIVE ReplaceSub(_, _, _)
\* s.replace(old, new): the occurrences of old from left to right, not overlapping
ReplaceSub(s, old, new) ==
    IF Len(s) < Len(old) THEN s
    ELSE IF SubSeq(s, 1, Len(old)) = old
    THEN new \o ReplaceSub(SubSeq(s, Len(old) + 1, Len(s)), old, new)
    ELSE <<Head(s)>> \o ReplaceSub(Tail(s), old, new)

Whitespace == {" ", "\t", "\n", "\r"}
RECURSIVE LStrip(_)
LStrip(s) == IF s # <<>> /\ Head(s) \in Whitespace THEN LStrip(Tail(s)) ELSE s
RECURSIVE RStrip(_)
RStrip(s) == IF s # <<>> /\ s[Len(s)] \in Whitespace THEN RStrip(SubSeq(s, 1, Len(s) - 1)) ELSE s
\* s.strip()
Strip(s) == RStrip(LStrip(s))

C_jetty == <<"j", "e", "t", "t", "y">>
C_coyote == <<"c", "o", "y", "o", "t", "e">>
C_message == <<"m", "e", "s", "s", "a", "g", "e">>
C_None == <<"N", "o", "n", "e">>
C_ReasonOpen == <<"[", "R", "e", "a", "s", "o", "n", ":", " ">>
C_br == <<"<", "b", "r", "/", ">">>
C_br_space == <<"<", "b", "r", " ", "/", ">">>
C_True == <<"T", "r", "u", "e">>
C_False == <<"F", "a", "l", "s", "e">>
C_true == <<"t", "r", "u", "e">>
C_false == <<"f", "a", "l", "s", "e">>
C_1_5 == <<"1", ".", "5">>
C_list_1 == <<"[", "1", "]">>

----------------------------------------------------------------------------
(* unescape_html *)

\* \w of the pattern: letters, digits and the underscore
WordChars == {"a", "b", "c", "d", "e", "f", "g", "h", "i", "j", "k", "l", "m",
              "n", "o", "p", "q", "r", "s", "t", "u", "v", "w", "x", "y", "z",
              "A", "B", "C", "D", "E", "F", "G", "H", "I", "J", "K", "L", "M",
              "N", "O", "P", "Q", "R", "S", "T", "U", "V", "W", "X", "Y", "Z",
              "0", "1", "2", "3", "4", "5", "6", "7", "8", "9", "_"}
DecDigits == <<"0", "1", "2", "3", "4", "5", "6", "7", "8", "9">>
HexDigits == DecDigits \o <<"a", "b", "c", "d", "e", "f", "A", "B", "C", "D", "E", "F">>

RECURSIVE WordRun(_, _)
\* the number of word characters of s from position i on
WordRun(s, i) == IF i <= Len(s) /\ s[i] \in WordChars THEN 1 + WordRun(s, i + 1) ELSE 0

\* the base of a digit alphabet and the value of a digit in it
Base(digits) == IF Len(digits) > Len(DecDigits) THEN Len(DecDigits) + 6 ELSE Len(DecDigits)
DigitValue(c, digits) ==
    LET k == CHOOSE j \in 1 .. Len(digits) : digits[j] = c
    IN IF k > Base(digits) THEN k - 7 ELSE k - 1
IsNumber(s, digits) == s # <<>> /\ \A i \in 1 .. Len(s) : \E k \in 1 .. Len(digits) : digits[k] = s[i]
RECURSIVE IntOf(_, _)
\* int(s, base), for a text of digits
IntOf(s, digits) ==
    IF s = <<>> THEN 0
    ELSE IntOf(SubSeq(s, 1, Len(s) - 1), digits) * Base(digits) + DigitValue(s[Len(s)], digits)

\* the largest value of a C int, which unichr takes its argument as, and the
\* largest code point
INT_MAX == 2147483647
MAX_CODE_POINT == 1114111

RECURSIVE FitsCInt(_, _)
\* the number a text of digits denotes is at most INT_MAX
FitsCInt(s, digits) ==
    IF s = <<>> THEN TRUE
    ELSE LET init == SubSeq(s, 1, Len(s) - 1)
         IN /\ FitsCInt(init, digits)
            /\ IntOf(init, digits) <= (INT_MAX - DigitValue(s[Len(s)], digits)) \div Base(digits)

\* htmlentities.name2codepoint, for the names the model's texts use
name2codepoint ==
    [n \in {<<"a", "m", "p">>, <<"l", "t">>, <<"g", "t">>, <<"q", "u", "o", "t">>} |->
        IF n = <<"a", "m", "p">> THEN 38 ELSE IF n = <<"l", "t">> THEN 60
        ELSE IF n = <<"g", "t">> THEN 62 ELSE 34]

\* the character of a code point: itself for printable ASCII (the grave
\* accent, 96, is written as a token), tab, newline and carriage return, and a
\* token naming the code point for any other
CharOf(n) ==
    LET printable ==
            <<" ", "!", "\"", "#", "$", "%", "&", "'", "(", ")", "*", "+", ",", "-", ".", "/",
              "0", "1", "2", "3", "4", "5", "6", "7", "8", "9", ":", ";", "<", "=", ">", "?",
              "@", "A", "B", "C", "D", "E", "F", "G", "H", "I", "J", "K", "L", "M", "N", "O",
              "P", "Q", "R", "S", "T", "U", "V", "W", "X", "Y", "Z", "[", "\\", "]", "^", "_",
              "U+96", "a", "b", "c", "d", "e", "f", "g", "h", "i", "j", "k", "l", "m", "n", "o",
              "p", "q", "r", "s", "t", "u", "v", "w", "x", "y", "z", "{", "|", "}", "~">>
    IN IF n >= 32 /\ n <= 126 THEN printable[n - 31]
       ELSE IF n = 9 THEN "\t"
       ELSE IF n = 10 THEN "\n"
       ELSE IF n = 13 THEN "\r"
       ELSE "U+" \o ToString(n)

Unescaped(text) == [raised |-> "", text |-> text]
UnescapeRaises(error) == [raised |-> error, text |-> <<>>]

\* unicode_char(int(s, base)) for the text s after '&#' or '&#x': int raises
\* ValueError for a text that is no number (a '0x' prefix is part of a
\* number in base 16); unichr raises OverflowError for a number no C int
\* holds and ValueError for one beyond the last code point
unicode_char(s, digits) ==
    LET t == IF digits = HexDigits /\ Len(s) > 2 /\ SubSeq(s, 1, 2) \in {<<"0", "x">>, <<"0", "X">>}
             THEN SubSeq(s, 3, Len(s)) ELSE s
    IN IF ~IsNumber(t, digits) THEN UnescapeRaises("ValueError")
       ELSE IF ~FitsCInt(t, digits) THEN UnescapeRaises("OverflowError")
       ELSE IF IntOf(t, digits) > MAX_CODE_POINT THEN UnescapeRaises("ValueError")
       ELSE Unescaped(<<CharOf(IntOf(t, digits))>>)

\* fixup(m): the replacement of one matched reference, or the error that
\* escapes it (`except ValueError: pass` leaves the reference as it is)
fixup(text) ==
    IF SubSeq(text, 1, 2) = <<"&", "#">>
    THEN LET c == IF SubSeq(text, 1, 3) = <<"&", "#", "x">>
                  THEN unicode_char(SubSeq(text, 4, Len(text) - 1), HexDigits)
                  ELSE unicode_char(SubSeq(text, 3, Len(text) - 1), DecDigits)
         IN IF c.raised = "ValueError" THEN Unescaped(text) ELSE c
    ELSE IF SubSeq(text, 2, Len(text) - 1) \in DOMAIN name2codepoint
         THEN Unescaped(<<CharOf(name2codepoint[SubSeq(text, 2, Len(text) - 1)])>>)
         ELSE Unescaped(text)

RECURSIVE UnescapeFrom(_, _)
\* re.sub("&#?\w+;", fixup, text), scanning from position i: the matches are
\* replaced from left to right, and an error of fixup ends the substitution
UnescapeFrom(s, i) ==
    IF i > Len(s) THEN Unescaped(<<>>)
    ELSE LET j == IF i + 1 <= Len(s) /\ s[i + 1] = "#" THEN i + 2 ELSE i + 1
             n == WordRun(s, j)
             matches == s[i] = "&" /\ n >= 1 /\ j + n <= Len(s) /\ s[j + n] = ";"
             here == IF matches THEN fixup(SubSeq(s, i, j + n)) ELSE Unescaped(<<s[i]>>)
         IN IF here.raised # "" THEN here
            ELSE LET rest == UnescapeFrom(s, IF matches THEN j + n + 1 ELSE i + 1)
                 IN IF rest.raised # "" THEN rest ELSE Unescaped(here.text \o rest.text)

unescape_html(text) == UnescapeFrom(text, 1)

\* texts handed to unescape_html, as the pieces they are made of: plain
\* text, references that resolve and references that do not
C_amp == <<"&", "a", "m", "p", ";">>
C_lt == <<"&", "l", "t", ";">>
C_dec_d == <<"&", "#", "1", "0", "0", ";">>
C_hex_d == <<"&", "#", "x", "6", "4", ";">>
C_hex_D_upper == <<"&", "#", "x", "4", "A", ";">>
C_dec_149 == <<"&", "#", "1", "4", "9", ";">>
C_huge == <<"&", "#", "9", "9", "9", "9", "9", "9", "9", "9", "9", "9", "9", ";">>
Markups ==
    LET pieces ==
            {<<"H", "e", "l", "l", "o", " ">>, <<"&">>, <<";">>,
             C_amp, C_lt, C_dec_d, C_hex_d, C_hex_D_upper, C_dec_149,
             <<"&", "d", "o", "e", "s", "n", "o", "t", "e", "x", "i", "s", "t", ";">>, <<"&", "#", ";">>, <<"&", "#", "x", ";">>, <<"&", "#", "1", "2", "a", "b", ";">>,
             \* one beyond the last code point
             <<"&", "#", "1", "1", "1", "4", "1", "1", "2", ";">>,
             \* INT_MAX and one beyond it
             <<"&", "#", "2", "1", "4", "7", "4", "8", "3", "6", "4", "7", ";">>, <<"&", "#", "2", "1", "4", "7", "4", "8", "3", "6", "4", "8", ";">>,
             C_huge, <<"&", "#", "x", "F", "F", "F", "F", "F", "F", "F", "F", "F", ";">>}
    IN SeqsUpTo(pieces, MaxPieces)

RECURSIVE Flatten(_)
\* the text made of the pieces
Flatten(pieces) == IF pieces = <<>> THEN <<>> ELSE Head(pieces) \o Flatten(Tail(pieces))

InitUnescapeIdle == markup = <<>> /\ plain = None

\* unescape_html(markup)
Unescape ==
    /\ plain = None
    /\ plain' = Some(unescape_html(Flatten(markup)))
    /\ UNCHANGED markup

----------------------------------------------------------------------------
(* _to_python: values from Solr to native Python values *)

\* a value handed to _to_python or returned by it: its type ("none",
\* "unicode", "str", "int", "float", "bool", "list", "tuple", "datetime"), its
\* text (for a datetime, 'YYYY-MM-DDTHH:MM:SS') and, for a list or tuple, its
\* items
Value(t, v, items) == [t |-> t, v |-> v, items |-> items]

\* DATETIME_REGEX.search(value): '$' also matches before a final newline
DATETIME_REGEX(value) ==
    LET s == IF value # <<>> /\ value[Len(value)] = "\n" THEN SubSeq(value, 1, Len(value) - 1) ELSE value
        AllDigits(from, to) == \A i \in from .. to : \E k \in 1 .. Len(DecDigits) : DecDigits[k] = s[i]
    IN /\ Len(s) >= 20
       /\ AllDigits(1, 4) /\ s[5] = "-"
       /\ AllDigits(6, 7) /\ s[8] = "-"
       /\ AllDigits(9, 10) /\ s[11] = "T"
       /\ AllDigits(12, 13) /\ s[14] = ":"
       /\ AllDigits(15, 16) /\ s[17] = ":"
       /\ AllDigits(18, 19)
       /\ s[Len(s)] = "Z"
       /\ Len(s) > 20 => (s[20] = "." /\ Len(s) >= 22 /\ AllDigits(21, Len(s) - 1))

\* datetime.datetime(year, month, day, hour, minute, second) accepts the fields
ValidDatetime(s) ==
    LET year == IntOf(SubSeq(s, 1, 4), DecDigits)
        month == IntOf(SubSeq(s, 6, 7), DecDigits)
        day == IntOf(SubSeq(s, 9, 10), DecDigits)
        hour == IntOf(SubSeq(s, 12, 13), DecDigits)
        minute == IntOf(SubSeq(s, 15, 16), DecDigits)
        second == IntOf(SubSeq(s, 18, 19), DecDigits)
        leap == year % 4 = 0 /\ (year % 100 # 0 \/ year % 400 = 0)
        days == IF month \in {4, 6, 9, 11} THEN 30
                ELSE IF month = 2 THEN (IF leap THEN 29 ELSE 28)
                ELSE 31
    IN /\ year >= 1
       /\ month \in 1 .. 12
       /\ day >= 1 /\ day <= days
       /\ hour <= 23 /\ minute <= 59 /\ second <= 59

\* eval(value) for a text, when it gives a value of one of the types
\* _to_python trusts (list, tuple, set, dict, int, float, long, complex):
\* None when eval raises or gives a value of another type
eval(s) ==
    IF IsNumber(s, DecDigits) /\ (Len(s) = 1 \/ s[1] # "0") THEN Some(Value("int", s, <<>>))
    ELSE IF s = C_1_5 THEN Some(Value("float", s, <<>>))
    ELSE IF s = C_True THEN Some(Value("bool", C_True, <<>>))
    ELSE IF s = C_list_1 THEN Some(Value("list", <<>>, <<Value("int", <<"1">>, <<>>)>>))
    ELSE None

Gave(value) == [raised |-> "", value |-> value]
Raises(error) == [raised |-> error, value |-> Value("none", <<>>, <<>>)]

\* _to_python(value): the value it returns or the error it raises
_to_python(value) ==
    \* isinstance(value, (int, float, long, complex)); bool is a subclass of int
    IF value.t \in {"int", "float", "long", "complex", "bool"} THEN Gave(value)
    \* value = value[0]
    ELSE IF value.t \in {"list", "tuple"} /\ value.items = <<>> THEN Raises("IndexError")
    ELSE LET first == IF value.t \in {"list", "tuple"} THEN value.items[1] ELSE value
             basestring == first.t \in {"unicode", "str"}
         IN
         IF basestring /\ first.v = C_true THEN Gave(Value("bool", C_True, <<>>))
         ELSE IF basestring /\ first.v = C_false THEN Gave(Value("bool", C_False, <<>>))
         ELSE IF basestring /\ DATETIME_REGEX(first.v)
         THEN (IF ValidDatetime(first.v) THEN Gave(Value("datetime", SubSeq(first.v, 1, 19), <<>>))
               ELSE Raises("ValueError"))
         \* eval of anything but a text raises TypeError, which is swallowed
         ELSE IF basestring /\ ~IsNone(eval(first.v)) THEN Gave(Get(eval(first.v)))
         ELSE Gave(first)

\* values handed to _to_python: scalars, and lists and tuples whose items are
\* scalars or lists of scalars
C_foo == <<"f", "o", "o">>
C_bar == <<"b", "a", "r">>
WireValues ==
    LET Unicode(s) == Value("unicode", s, <<>>)
        scalars ==
            {Value("none", <<>>, <<>>), Unicode(<<>>), Unicode(C_foo), Unicode(C_bar),
             Value("str", <<"h", "e", "l", "l", "o">>, <<>>),
             Unicode(C_true), Unicode(C_false), Unicode(C_True),
             Unicode(<<"1">>), Unicode(C_1_5), Unicode(C_list_1),
             Unicode(<<"2", "0", "1", "3", "-", "0", "1", "-", "1", "8", "T", "0", "0", ":", "3", "0", ":", "2", "8", "Z">>),
             Unicode(<<"2", "0", "1", "3", "-", "0", "1", "-", "1", "8", "T", "0", "0", ":", "3", "0", ":", "2", "8", ".", "5", "Z">>),
             Unicode(<<"2", "0", "1", "3", "-", "1", "3", "-", "1", "8", "T", "0", "0", ":", "0", "0", ":", "0", "0", "Z">>),
             Value("int", <<"1">>, <<>>), Value("float", C_1_5, <<>>), Value("bool", C_True, <<>>)}
        items == scalars \cup {Value("list", <<>>, <<>>),
                               Value("list", <<>>, <<Unicode(C_foo), Unicode(C_bar)>>)}
    IN scalars
       \cup {Value("list", <<>>, its) : its \in SeqsUpTo(items, MaxItems)}
       \cup {Value("tuple", <<>>, its) : its \in SeqsUpTo(items, MaxItems)}

InitCodecIdle == wire = Value("none", <<>>, <<>>) /\ native = None

\* self._to_python(wire)
ToPython ==
    /\ native = None
    /\ native' = Some(_to_python(wire))
    /\ UNCHANGED wire

----------------------------------------------------------------------------
(* Responses *)

\* a response body, by what its readers make of it:
\*   json   what decoder.decode gives: None when the body is no JSON object
\*   xml    what ET.fromstring gives: None when it raises a SyntaxError, else
\*          the nodes find('body/pre') and find('head/title') give (None, or
\*          the node's text, itself None for an empty node) and ET.tostring
\*   html   what lxml.html.fromstring gives: whether it parses, whether
\*          find('body') gives a node, the children's texts of each p element
\*          under it, and clean_html of the body
\*   raw    the body as text
Dom(pre, title, dump) == [pre |-> pre, title |-> title, dump |-> dump]
Html(parses, hasBody, paras, clean) ==
    [parses |-> parses, hasBody |-> hasBody, paras |-> paras, clean |-> clean]
Body(json, xml, html, raw) == [json |-> json, xml |-> xml, html |-> html, raw |-> raw]

\* a decoded envelope: the 'response' section ("absent", "null", "present"),
\* its 'docs' and 'numFound' when they are there, the optional sections that
\* are there and truthy, responseHeader.QTime and the flat 'terms' list
Envelope(resp, ds, numFound, sections, qtime, terms) ==
    [response |-> resp, docs |-> ds, numFound |-> numFound,
     sections |-> sections, qtime |-> qtime, terms |-> terms]

Response(status, reason, server, body) ==
    [status |-> status, reason |-> reason, server |-> server, body |-> body]

----------------------------------------------------------------------------
(* Error extraction *)

\* the server_type of _scrape_response, from headers.get('server', '')
ServerType_CaseSensitive(server_string) ==
    IF server_string # <<>> /\ Contains(C_coyote, server_string) THEN "tomcat"
    ELSE IF server_string # <<>> /\ Contains(C_jetty, server_string) THEN "jetty"
    ELSE "None"

ServerType(server_string) ==
    IF server_string # <<>> /\ Contains(C_coyote, LowerText(server_string)) THEN "tomcat"
    ELSE IF server_string # <<>> /\ Contains(C_jetty, LowerText(server_string)) THEN "jetty"
    ELSE "None"

RECURSIVE ScanParagraphs(_, _)
\* the loop over p_nodes, from the reason found so far: the reason after the
\* loop, or the error children[0].text.lower() raises for a child with no text
ScanParagraphs(paras, reason) ==
    IF paras = <<>> THEN [raised |-> "", reason |-> reason]
    ELSE LET children == Head(paras) IN
         IF Len(children) >= 2
         THEN IF IsNone(children[1])
              THEN [raised |-> "AttributeError", reason |-> reason]
              ELSE IF Contains(C_message, LowerText(Get(children[1])))
              THEN ScanParagraphs(Tail(paras), children[2])
              ELSE ScanParagraphs(Tail(paras), reason)
         ELSE ScanParagraphs(Tail(paras), reason)

\* the clean-up of full_html at the end of _scrape_response
CleanFullHtml_NoStrip(full_html) ==
    ReplaceSub(ReplaceSub(ReplaceSub(ReplaceSub(full_html,
        <<"\n">>, <<>>), <<"\r">>, <<>>), C_br, <<>>), C_br_space, <<>>)

CleanFullHtml(full_html) ==
    Strip(ReplaceSub(ReplaceSub(ReplaceSub(ReplaceSub(full_html,
        <<"\n">>, <<>>), <<"\r">>, <<>>), C_br, <<>>), C_br_space, <<>>))

\* _scrape_response(headers, response): the error it raises, if any, or the
\* (reason, full_html) pair it returns
_scrape_response(server_string, body) ==
    LET server_type == ServerType(server_string) IN
    IF server_type = "tomcat"
    THEN IF ~body.html.parses
         THEN [raised |-> "ParserError", reason |-> None, full_html |-> <<>>]
         ELSE IF ~body.html.hasBody
         THEN [raised |-> "AttributeError", reason |-> None, full_html |-> <<>>]
         ELSE LET scan == ScanParagraphs(body.html.paras, None) IN
              IF scan.raised # ""
              THEN [raised |-> scan.raised, reason |-> None, full_html |-> <<>>]
              ELSE [raised |-> "", reason |-> scan.reason,
                    full_html |-> CleanFullHtml(IF IsNone(scan.reason) THEN body.html.clean ELSE <<>>)]
    ELSE IF IsNone(body.xml)
         THEN [raised |-> "", reason |-> None, full_html |-> CleanFullHtml(body.raw)]
         ELSE LET dom_tree == Get(body.xml)
                  reason_node == IF server_type = "jetty" THEN dom_tree.pre ELSE dom_tree.title
                  reason == IF IsNone(reason_node) THEN None ELSE Get(reason_node)
              IN [raised |-> "", reason |-> reason,
                  full_html |-> CleanFullHtml(IF IsNone(reason) THEN dom_tree.dump ELSE <<>>)]

\* "[Reason: %s]" % reason
ReasonLine(reason) == C_ReasonOpen \o (IF IsNone(reason) THEN C_None ELSE Get(reason)) \o <<"]">>

\* _extract_error(resp): the error it raises, if any, or the message
_extract_error_ScrapeAlways(resp) ==
    LET scraped == _scrape_response(resp.server, resp.body) IN
    IF scraped.raised # "" THEN [raised |-> scraped.raised, msg |-> <<>>]
    ELSE IF ~IsNone(scraped.reason) THEN [raised |-> "", msg |-> ReasonLine(scraped.reason)]
    ELSE LET dump == unescape_html(scraped.full_html) IN
         IF dump.raised # "" THEN [raised |-> dump.raised, msg |-> <<>>]
         ELSE [raised |-> "", msg |-> ReasonLine(None) \o <<"\n">> \o dump.text]

_extract_error(resp) ==
    IF ~IsNone(resp.reason)
    THEN [raised |-> "", msg |-> ReasonLine(resp.reason)]
    ELSE LET scraped == _scrape_response(resp.server, resp.body) IN
         IF scraped.raised # "" THEN [raised |-> scraped.raised, msg |-> <<>>]
         \* msg = "[Reason: %s]" % reason, and the dump only `if reason is None`
         ELSE IF ~IsNone(scraped.reason) THEN [raised |-> "", msg |-> ReasonLine(scraped.reason)]
         ELSE LET dump == unescape_html(scraped.full_html) IN
              IF dump.raised # "" THEN [raised |-> dump.raised, msg |-> <<>>]
              ELSE [raised |-> "", msg |-> ReasonLine(None) \o <<"\n">> \o dump.text]

----------------------------------------------------------------------------
(* What a call gives its caller *)

NoMsg == [fmt |-> "", text |-> <<>>, url |-> None, cause |-> ""]
NoValue == [kind |-> "none", content |-> None, docs |-> <<>>, hits |-> 0,
            sections |-> {}, qtime |-> None, terms |-> <<>>]
NoOutcome == [kind |-> "none", error |-> "", msg |-> NoMsg, value |-> NoValue]
Raised(error, msg) == [kind |-> "raised", error |-> error, msg |-> msg, value |-> NoValue]
Returned(value) == [kind |-> "returned", error |-> "", msg |-> NoMsg, value |-> value]

\* resp.content
Content(body) == [NoValue EXCEPT !.kind = "content", !.content = Some(body)]
\* Results(docs, hits, **result_kwargs)
Results(ds, hits, sections, qtime) ==
    [NoValue EXCEPT !.kind = "results", !.docs = ds, !.hits = hits,
                    !.sections = sections, !.qtime = qtime]

\* `int(resp.status_code) != 200`
IsFailure(status) == status # 200

\* _send_request from the transport's answer on: sig is "timeout", "refused"
\* or "response" (with the response)
AfterTransport(req, sig, resp) ==
    IF sig = "timeout"
    THEN \* `error_message % [url, err]`: two %s, one argument
         Raised("TypeError", [NoMsg EXCEPT !.fmt = "not enough arguments for format string"])
    ELSE IF sig = "refused"
    THEN Raised("SolrError",
                [NoMsg EXCEPT !.fmt = "Failed to connect to server at '%s', are you sure that URL is correct? Checking it in a browser might help: %s",
                              !.url = Some(req.url), !.cause = "ConnectionError"])
    ELSE IF IsFailure(resp.status)
    THEN LET e == _extract_error(resp) IN
         IF e.raised # "" THEN Raised(e.raised, NoMsg)
         ELSE Raised("SolrError", [NoMsg EXCEPT !.text = e.msg])
    ELSE Returned(Content(resp.body))

SearchSections == {"debug", "highlighting", "facet_counts", "spellcheck", "stats", "grouped"}

\* search, from the body _select returned
SearchResults(body) ==
    IF IsNone(body.json) THEN Raised("ValueError", NoMsg)
    ELSE LET result == Get(body.json)
             \* result.get('response') or {}
             present == result.response = "present"
             numFound == IF present /\ ~IsNone(result.numFound) THEN Get(result.numFound) ELSE 0
             ds == IF present /\ ~IsNone(result.docs) THEN Get(result.docs) ELSE <<>>
         IN Returned(Results(ds, numFound, result.sections \cap SearchSections, result.qtime))

\* more_like_this, from the body _mlt returned
MltResults(body) ==
    IF IsNone(body.json) THEN Raised("ValueError", NoMsg)
    ELSE LET result == Get(body.json) IN
         IF result.response = "absent" THEN Raised("KeyError", NoMsg)
         ELSE IF result.response = "null" THEN Returned(Results(<<>>, 0, {}, None))
         ELSE IF IsNone(result.numFound) \/ IsNone(result.docs) THEN Raised("KeyError", NoMsg)
         ELSE Returned(Results(Get(result.docs), Get(result.numFound), {}, None))

RECURSIVE PairUp(_)
\* `while values: tmp.append((values.pop(0), values.pop(0)))`
PairUp(values) ==
    IF values = <<>> THEN [raised |-> "", pairs |-> <<>>]
    ELSE IF Len(values) = 1 THEN [raised |-> "IndexError", pairs |-> <<>>]
    ELSE LET more == PairUp(SubSeq(values, 3, Len(values)))
         IN [raised |-> more.raised, pairs |-> << <<values[1], values[2]>> >> \o more.pairs]

\* suggest_terms, from the body _suggest_terms returned; the terms of one field
TermsResults(body) ==
    IF IsNone(body.json) THEN Raised("ValueError", NoMsg)
    ELSE LET paired == PairUp(Get(body.json).terms) IN
         IF paired.raised # "" THEN Raised(paired.raised, NoMsg)
         ELSE Returned([NoValue EXCEPT !.kind = "terms", !.terms = paired.pairs])

\* the rest of the call once _send_request has returned or raised
Complete(op, sent) ==
    IF sent.kind = "raised" THEN sent
    ELSE IF op = "search" THEN SearchResults(Get(sent.value.content))
    ELSE IF op = "more_like_this" THEN MltResults(Get(sent.value.content))
    ELSE IF op = "suggest_terms" THEN TermsResults(Get(sent.value.content))
    ELSE sent

----------------------------------------------------------------------------
(* Inputs *)

\* query texts: short ones, and ones that bring the encoded parameters of
\* search ('q=' + text + '&wt=json') to the limit and around it
QLens == (0 .. Slack) \cup ((SELECT_LIMIT - 10 - Slack) .. (SELECT_LIMIT - 10 + Slack))
QTexts == {Text(n, w) : n \in QLens, w \in 0 .. MaxWide}
\* **kwargs of the read operations
Kwargs == {NoParams, Param("wt", <<Text(3, 0)>>), Param("rows", <<Text(2, 0)>>)}

CommitArgs == {"unset", "None", "True", "False"}
WaitArgs == {"unset", "True", "False"}

\* ids and queries of delete: '1', 'a<VT>b' and '*:*'
DeleteIds == {None, Some(T_1), Some(<<97, 11, 98>>)}
DeleteQueries == {None, Some(<<42, 58, 42>>)}

C_NotFound == <<"N", "o", "t", " ", "F", "o", "u", "n", "d">>
C_boom == <<"b", "o", "o", "m">>
Statuses == {200, 204, 404}
Reasons == {None, Some(C_NotFound)}
Servers == {<<>>, <<"J", "e", "t", "t", "y">>,
            <<"A", "p", "a", "c", "h", "e", "-", "C", "o", "y", "o", "t", "e">>}

JsonBody(env) == Body(Some(env), None, Html(TRUE, FALSE, <<>>, <<"{", "}">>), <<"{", "}">>)
Bodies ==
    { \* JSON envelopes: a full one, a null section, no section, an empty section
      JsonBody(Envelope("present", Some(<<1, 2>>), Some(2), {"debug"}, Some(3), <<"da", "2">>)),
      JsonBody(Envelope("null", None, None, {}, None, <<>>)),
      JsonBody(Envelope("absent", None, None, {}, None, <<"da">>)),
      JsonBody(Envelope("present", None, None, {}, None, <<>>)),
      \* a well-formed error page: <head><title/></head><body><pre>boom</pre></body>
      Body(None,
           Some(Dom(Some(Some(C_boom)), Some(None), <<"<", "p", ">", "\n", "&", "a", "m", "p", ";">>)),
           Html(TRUE, TRUE, <<>>, <<" ", "b", "o", "o", "m">>),
           <<"<", "p", ">">>),
      \* a servlet-container page: <body><p><b>Message</b><u>boom</u></p></body>
      Body(None, None,
           Html(TRUE, TRUE, << <<Some(<<"M", "e", "s", "s", "a", "g", "e">>), Some(C_boom)>> >>, <<"x">>),
           <<"<", "b", "r", "/", ">", "x", "\n">>),
      \* a page with a childless-text paragraph: <body><p><b/><u>boom</u></p></body>
      Body(None, None, Html(TRUE, TRUE, << <<None, Some(C_boom)>> >>, <<"x">>), <<"x">>),
      \* an empty body
      Body(None, None, Html(FALSE, FALSE, <<>>, <<>>), <<>>) }

Responses == {Response(st, r, sv, b) : st \in Statuses, r \in Reasons, sv \in Servers, b \in Bodies}

\* failure responses, for the error extraction
C_Error_404 == <<"E", "r", "r", "o", "r", " ", "4", "0", "4">>
C_Message == <<"M", "e", "s", "s", "a", "g", "e">>

\* well-formed pages <html><head><title>..</title></head><body><pre>..</pre>
\* ..</body></html>, with or without their title and pre elements (a node
\* find() gives is None, a node with no text, or a node with a text): ET
\* parses them and ET.tostring gives them back; lxml.html finds a body with no
\* paragraph
ErrorPages ==
    LET text(node) == IF IsNone(Get(node)) THEN <<>> ELSE Get(Get(node))
        page(title, pre, filler) ==
            LET raw == <<"<html>">>
                       \o (IF IsNone(title) THEN <<>>
                           ELSE <<"<head><title>">> \o text(title) \o <<"</title></head>">>)
                       \o <<"<body>">>
                       \o (IF IsNone(pre) THEN <<>> ELSE <<"<pre>">> \o text(pre) \o <<"</pre>">>)
                       \o filler \o <<"</body></html>">>
            IN Body(None, Some(Dom(pre, title, raw)), Html(TRUE, TRUE, <<>>, raw), raw)
    IN {page(title, pre, filler) :
            title \in {None, Some(None), Some(Some(C_Error_404))},
            pre \in {None, Some(None), Some(Some(C_boom))},
            filler \in {<<>>, <<"\n">>, C_br, <<"&", "l", "t", ";", "b", "r", "/", "&", "g", "t", ";">>,
                        <<"<hr title=\"a", "&", "#", "1", "0", ";", "\"/>">>}}

\* servlet-container pages: no valid XML; lxml.html finds a body with these
\* paragraphs (the texts of each paragraph's children) and clean_html gives
\* this rendering of it
ServletPages ==
    LET type == <<"t", "y", "p", "e">>
        description == <<"d", "e", "s", "c", "r", "i", "p", "t", "i", "o", "n">>
        first == <<"f", "i", "r", "s", "t">>
        second == <<"s", "e", "c", "o", "n", "d">>
        gone == <<"g", "o", "n", "e">>
        paragraphs ==
            { <<>>,
              << <<Some(C_Message), Some(C_boom)>> >>,
              << <<Some(type)>> >>,
              << <<Some(type)>>, <<Some(C_message), Some(C_boom)>>, <<Some(description), Some(gone)>> >>,
              << <<Some(C_message), Some(first)>>, <<Some(C_Message), Some(second)>> >>,
              << <<Some(C_message), Some(first)>>, <<Some(C_message), None>> >>,
              << <<None, Some(C_boom)>> >>,
              << <<Some(description), Some(gone)>> >> }
        renderings ==
            {<<" ", "<div>", "b", "o", "o", "m", "</div>", "\n">>,
             <<"a", "<", "b", "r", "/", ">", "b">>,
             <<"x", "&", "a", "m", "p", ";", "y">>}
    IN {Body(None, None, Html(TRUE, TRUE, paras, clean), clean) :
            paras \in paragraphs, clean \in renderings}

\* bodies that are no markup: ET raises a SyntaxError; lxml.html raises a
\* ParserError for the empty body and finds no body node in a bare text
RawBodies ==
    LET texts ==
            {<<>>, C_boom, <<" ", "b", "o", "o", "m", "\n">>,
             <<"a", "<", "b", "r", "/", ">", "b", "<", "b", "r", " ", "/", ">", "c", "\r", "\n">>,
             <<"<", "b", "r", "<", "b", "r", " ", "/", ">", "/", ">">>, <<"x", "&", "#", "1", "0", ";">>, <<"&", "l", "t", ";", "b", "r", "/", "&", "g", "t", ";">>, C_huge}
    IN {Body(None, None, Html(raw # <<>>, FALSE, <<>>, raw), raw) : raw \in texts}

ErrorResponses ==
    {Response(st, r, sv, b) :
        st \in {404, 500},
        r \in Reasons,
        sv \in {<<>>, <<"J", "e", "t", "t", "y", "(", "6", ".", "1", ".", "3", ")">>, <<"A", "p", "a", "c", "h", "e", "-", "C", "o", "y", "o", "t", "e", "/", "1", ".", "1">>, <<"J", "e", "t", "t", "y", "-", "C", "o", "y", "o", "t", "e">>},
        b \in ErrorPages \cup ServletPages \cup RawBodies}

\* documents and boost mappings handed to add
PyFloat(s) == [t |-> "float", v |-> s, items |-> <<>>]
EntryValues == {PyNone, PyUnicode(<<>>), PyUnicode(T_a), PyUnicode(T_b)}
FieldValues ==
    {PyNone, PyUnicode(<<>>), PyUnicode(T_a), PyInt(T_1), PyBool(TRUE)}
    \cup {PyList(items) : items \in SeqsUpTo(EntryValues, MaxEntries)}
\* {"id": 1, "tags": value}
DocWith(value) == << <<T_id, PyInt(T_1)>>, <<T_tags, value>> >>
\* {"id": 1, "tags": ["a", ""]}
ExampleDoc == DocWith(PyList(<<PyUnicode(T_a), PyUnicode(<<>>)>>))
DocInputs ==
    {<<>>}
    \cup {<<DocWith(value)>> : value \in FieldValues}
    \cup {<< <<<<T_boost, PyFloat(T_2_0)>>, <<T_id, PyInt(T_1)>>>>, ExampleDoc >>}
BoostInputs ==
    {NoBoost,
     BoostOf([k \in {} |-> Weight("float", T_2_0)]),
     BoostOf([k \in {T_tags} |-> Weight("float", T_2_0)]),
     BoostOf([k \in {T_a} |-> Weight("float", T_1_5)]),
     BoostOf([k \in {T_tags, T_a} |-> IF k = T_tags THEN Weight("float", T_2_0) ELSE Weight("float", T_1_5)])}
CommitWithins == {None, Some(<<49, 48>>)}

\* the answers the transport gives in the specification of add
FewResponses ==
    {Response(200, None, <<>>, Body(None, None, Html(FALSE, FALSE, <<>>, <<>>), <<>>)),
     Response(404, Some(C_NotFound), <<>>, Body(None, None, Html(FALSE, FALSE, <<>>, <<>>), <<>>))}

----------------------------------------------------------------------------
(* The client: one action per API method, and the transport's answers *)

Call(op, params, id, q, commit, waitFlush, waitSearcher) ==
    [op |-> op, params |-> params, id |-> id, q |-> q,
     commit |-> commit, waitFlush |-> waitFlush, waitSearcher |-> waitSearcher]
NoCall == Call("none", NoParams, None, None, "unset", "unset", "unset")

InitDispatch ==
    /\ pc = "idle"
    /\ call = NoCall
    /\ request = None
    /\ signal = "none"
    /\ response = None
    /\ outcome = NoOutcome
    /\ sends = 0
    /\ calls = 0
    /\ totalSends = 0

\* the client is ready for a call: none is in progress
Ready == pc = "idle" /\ calls < MaxCalls

\* a call gets as far as _send_request, which invokes the transport
Invoke(c, req) ==
    /\ Ready
    /\ call' = c
    /\ request' = Some(req)
    /\ pc' = "sent"
    /\ signal' = "none"
    /\ response' = None
    /\ outcome' = NoOutcome
    /\ sends' = 1
    /\ calls' = calls + 1
    /\ totalSends' = totalSends + 1

\* a call raises before it reaches _send_request
Refuse(c, error) ==
    /\ Ready
    /\ call' = c
    /\ request' = None
    /\ pc' = "done"
    /\ signal' = "none"
    /\ response' = None
    /\ outcome' = Raised(error, NoMsg)
    /\ sends' = 0
    /\ calls' = calls + 1
    /\ UNCHANGED totalSends

search ==
    \E q \in QTexts, kwargs \in Kwargs :
        LET params == Update(Param("q", <<q>>), kwargs)
        IN /\ Invoke(Call("search", params, None, None, "unset", "unset", "unset"), _select(params))
           /\ UNCHANGED <<pureVars, addVars>>

more_like_this ==
    \E q \in {Text(1, 0)}, mltfl \in {Text(4, 0)}, kwargs \in {NoParams, Param("rows", <<Text(2, 0)>>)} :
        LET params == Update(Param("q", <<q>>) @@ Param("mlt.fl", <<mltfl>>), kwargs)
        IN /\ Invoke(Call("more_like_this", params, None, None, "unset", "unset", "unset"), _mlt(params))
           /\ UNCHANGED <<pureVars, addVars>>

suggest_terms ==
    \E fields \in {<<Text(4, 0)>>, <<Text(4, 0), Text(2, 0)>>}, prefix \in {Text(2, 0)} :
        LET params == Param("terms.fl", fields) @@ Param("terms.prefix", <<prefix>>)
        IN /\ Invoke(Call("suggest_terms", params, None, None, "unset", "unset", "unset"), _suggest_terms(params))
           /\ UNCHANGED <<pureVars, addVars>>

delete_BothAllowed ==
    \E id \in DeleteIds, q \in DeleteQueries, commit \in CommitArgs,
       waitFlush \in WaitArgs, waitSearcher \in WaitArgs :
        LET c == Call("delete", NoParams, id, q, commit, waitFlush, waitSearcher)
            m == IF ~IsNone(id) THEN Message("delete", "id", None, Get(id))
                 ELSE Message("delete", "query", None, Get(q))
        IN
        /\ IF IsNone(id) /\ IsNone(q)
           THEN Refuse(c, "ValueError") /\ UNCHANGED message
           ELSE /\ Invoke(c, _update(m, CommitDefault(commit), WaitDefault(waitFlush), WaitDefault(waitSearcher)))
                /\ message' = Some(m)
        /\ UNCHANGED <<docs, boost, pureVars>>

delete ==
    \E id \in DeleteIds, q \in DeleteQueries, commit \in CommitArgs,
       waitFlush \in WaitArgs, waitSearcher \in WaitArgs :
        LET c == Call("delete", NoParams, id, q, commit, waitFlush, waitSearcher)
            m == IF ~IsNone(id) THEN Message("delete", "id", None, Get(id))
                 ELSE Message("delete", "query", None, Get(q))
        IN
        /\ IF IsNone(id) /\ IsNone(q)
           THEN Refuse(c, "ValueError") /\ UNCHANGED message
           ELSE IF ~IsNone(id) /\ ~IsNone(q)
           THEN Refuse(c, "ValueError") /\ UNCHANGED message
           ELSE /\ Invoke(c, _update(m, CommitDefault(commit), WaitDefault(waitFlush), WaitDefault(waitSearcher)))
                /\ message' = Some(m)
        /\ UNCHANGED <<docs, boost, pureVars>>

commit ==
    \E waitFlush \in WaitArgs, waitSearcher \in WaitArgs, expungeDeletes \in {"None", "True", "False"} :
        LET msg == IF expungeDeletes # "None"
                   THEN Message("commit", "", Some(<<"expungeDeletes", BoolToken(expungeDeletes)>>), <<>>)
                   ELSE Message("commit", "", None, <<>>)
        IN /\ Invoke(Call("commit", NoParams, None, None, "unset", waitFlush, waitSearcher),
                     _update(msg, CommitDefault("unset"), WaitDefault(waitFlush), WaitDefault(waitSearcher)))
           /\ message' = Some(msg)
           /\ UNCHANGED <<docs, boost, pureVars>>

optimize ==
    \E waitFlush \in WaitArgs, waitSearcher \in WaitArgs, maxSegments \in {"None", "2"} :
        LET msg == IF maxSegments # "None"
                   THEN Message("optimize", "", Some(<<"maxSegments", maxSegments>>), <<>>)
                   ELSE Message("optimize", "", None, <<>>)
        IN /\ Invoke(Call("optimize", NoParams, None, None, "unset", waitFlush, waitSearcher),
                     _update(msg, CommitDefault("unset"), WaitDefault(waitFlush), WaitDefault(waitSearcher)))
           /\ message' = Some(msg)
           /\ UNCHANGED <<docs, boost, pureVars>>

\* add(docs, commit, boost, commitWithin, waitFlush, waitSearcher), on the
\* caller's docs and boost mapping
Add(commitArg, commitWithin, waitFlush, waitSearcher) ==
    LET built == AddDocs(docs, boost)
        m == AddMessage(docs, boost, commitWithin)
    IN /\ Invoke(Call("add", NoParams, None, None, commitArg, waitFlush, waitSearcher),
                 _update(m, CommitDefault(commitArg), WaitDefault(waitFlush), WaitDefault(waitSearcher)))
       /\ message' = Some(m)
       /\ boost' = built.boost
       /\ UNCHANGED <<docs, pureVars>>

add ==
    \E commitArg \in CommitArgs, commitWithin \in CommitWithins,
       waitFlush \in WaitArgs, waitSearcher \in WaitArgs :
        Add(commitArg, commitWithin, waitFlush, waitSearcher)

\* add with its keyword arguments left out
add_Defaults == Add("unset", None, "unset", "unset")

\* commit() with its keyword arguments left out
commit_Defaults ==
    LET msg == Message("commit", "", None, <<>>)
    IN /\ Invoke(Call("commit", NoParams, None, None, "unset", "unset", "unset"),
                 _update(msg, CommitDefault("unset"), WaitDefault("unset"), WaitDefault("unset")))
       /\ message' = Some(msg)
       /\ UNCHANGED <<docs, boost, pureVars>>

\* the transport answers and the call runs to its end
Settle_Retry(sig, resp) ==
    /\ pc = "sent"
    /\ signal' = sig
    /\ response' = resp
    /\ LET sent == AfterTransport(Get(request), sig, IF IsNone(resp) THEN resp ELSE Get(resp))
       IN IF sent.kind = "raised" /\ sends < 2
          THEN /\ pc' = "sent"
               /\ sends' = sends + 1
               /\ totalSends' = totalSends + 1
               /\ UNCHANGED outcome
          ELSE /\ pc' = "done"
               /\ outcome' = Complete(call.op, sent)
               /\ UNCHANGED <<sends, totalSends>>
    /\ UNCHANGED <<call, request, calls, pureVars, addVars>>

Settle(sig, resp) ==
    /\ pc = "sent"
    /\ signal' = sig
    /\ response' = resp
    /\ pc' = "done"
    /\ outcome' = Complete(call.op, AfterTransport(Get(request), sig, IF IsNone(resp) THEN resp ELSE Get(resp)))
    /\ UNCHANGED <<call, request, sends, calls, totalSends, pureVars, addVars>>

\* the call returns to its caller, or its error reaches the caller: the
\* request, the response and the message built do not outlive the call
Return ==
    /\ pc = "done"
    /\ pc' = "idle"
    /\ call' = NoCall
    /\ request' = None
    /\ signal' = "none"
    /\ response' = None
    /\ outcome' = NoOutcome
    /\ sends' = 0
    /\ message' = None
    /\ UNCHANGED <<calls, totalSends, docs, boost, pureVars>>

\* requests.exceptions.Timeout
TransportTimeout == Settle("timeout", None)
\* requests.exceptions.ConnectionError
TransportRefused == Settle("refused", None)
\* the transport returns a response
TransportResponds == \E r \in Responses : Settle("response", Some(r))
TransportRespondsToAdd == \E r \in FewResponses : Settle("response", Some(r))
\* the transport returns a failure response
TransportFails == \E r \in ErrorResponses : Settle("response", Some(r))

----------------------------------------------------------------------------
(* Specifications *)

InitAddIdle == docs = <<ExampleDoc>> /\ boost = NoBoost /\ message = None
InitAdd == docs \in DocInputs /\ boost \in BoostInputs /\ message = None

Init == InitDispatch /\ InitSanitizeIdle /\ InitAddIdle /\ InitCodecIdle /\ InitUnescapeIdle

Next ==
    \/ search
    \/ more_like_this
    \/ suggest_terms
    \/ add
    \/ delete
    \/ commit
    \/ optimize
    \/ TransportTimeout
    \/ TransportRefused
    \/ TransportResponds
    \/ Return

Spec == Init /\ [][Next]_vars

\* sanitize on its own, over payloads
SanitizeInit == InitDispatch /\ InitSanitize /\ InitAddIdle /\ InitCodecIdle /\ InitUnescapeIdle
SanitizeNext ==
    \/ Sanitize /\ UNCHANGED <<dispatchVars, addVars, wire, native, markup, plain>>
    \/ SanitizeAgain /\ UNCHANGED <<dispatchVars, addVars, wire, native, markup, plain>>
SpecSanitize == SanitizeInit /\ [][SanitizeNext]_vars

\* add on its own, over documents and boost mappings
AddInit == InitDispatch /\ InitSanitizeIdle /\ InitAdd /\ InitCodecIdle /\ InitUnescapeIdle
AddNext ==
    \/ add_Defaults
    \/ TransportTimeout
    \/ TransportRespondsToAdd
    \/ Return
SpecAdd == AddInit /\ [][AddNext]_vars

\* the error extraction, over failure responses to commit()
ExtractNext ==
    \/ commit_Defaults
    \/ TransportFails
    \/ Return
SpecExtract == Init /\ [][ExtractNext]_vars

\* _to_python on its own, over values from Solr
CodecInit ==
    /\ InitDispatch /\ InitSanitizeIdle /\ InitAddIdle /\ InitUnescapeIdle
    /\ wire \in WireValues
    /\ native = None
CodecNext == ToPython /\ UNCHANGED <<dispatchVars, sanitizeVars, addVars, markup, plain>>
SpecCodec == CodecInit /\ [][CodecNext]_vars

\* unescape_html on its own, over texts
UnescapeInit ==
    /\ InitDispatch /\ InitSanitizeIdle /\ InitAddIdle /\ InitCodecIdle
    /\ markup \in Markups
    /\ plain = None
UnescapeNext == Unescape /\ UNCHANGED <<dispatchVars, sanitizeVars, addVars, wire, native>>
SpecUnescape == UnescapeInit /\ [][UnescapeNext]_vars

----------------------------------------------------------------------------
(* Properties *)

Req == Get(request)
Resp == Get(response)
Answered == pc = "done" /\ signal = "response"
UpdateOps == {"add", "delete", "commit", "optimize"}

\* C1: every select request is shaped by the length L of its encoded
\* parameters, wt=json forced: L >= 1024 gives a POST to the select path with
\* the form content type and the encoded string as body, L < 1024 a GET with
\* the encoded string on the path and no body; L = 1024 is a POST.
C1_SelectShape ==
    (call.op = "search" /\ ~IsNone(request)) =>
        LET forced == [k \in DOMAIN call.params \cup {"wt"} |->
                          IF k = "wt" THEN <<Text(4, 0)>> ELSE call.params[k]]
            enc == safe_urlencode(forced)
        IN /\ enc.len >= 1024 =>
                /\ Req.method = "post"
                /\ Req.url.path = Path("select/", None, <<>>)
                /\ Req.ctype = "application/x-www-form-urlencoded; charset=utf-8"
                /\ Req.body = FormBody(enc)
           /\ enc.len < 1024 =>
                /\ Req.method = "get"
                /\ Req.url.path = Path("select/?", Some(enc), <<>>)
                /\ Req.body = NoBody
                /\ Req.ctype = ""

\* a search whose encoded parameters are exactly 1024 long has been posted
C1_Witness ==
    /\ call.op = "search"
    /\ ~IsNone(request)
    /\ Req.method = "post"
    /\ Get(Req.body.form).len = 1024

\* C2: a dispatched request returns exactly when the status is a 2xx status;
\* for a non-2xx status it raises SolrError with the extractor's message (when
\* the extractor gives one) and never returns; no 2xx status is a failure.
C2_ReturnsIff2xx ==
    Answered =>
        LET e == _extract_error(Resp) IN
        IF Resp.status \in 200 .. 299
        THEN ~(outcome.kind = "raised" /\ outcome.error = "SolrError")
        ELSE /\ outcome.kind = "raised"
             /\ e.raised = "" => (outcome.error = "SolrError" /\ outcome.msg.text = e.msg)

\* C3: each call invokes the transport at most once; a call whose transport
\* attempt fails or whose response is a failure ends with an error after that
\* one invocation.
C3_AtMostOneSend ==
    /\ sends <= 1
    /\ totalSends <= calls
    /\ (pc = "done" /\ (signal \in {"timeout", "refused"} \/ (signal = "response" /\ Resp.status # 200)))
          => (outcome.kind = "raised" /\ sends = 1)

\* the second call of a sequence has failed on a timeout after one invocation
C3_Witness ==
    /\ pc = "done"
    /\ calls = 2
    /\ signal = "timeout"
    /\ outcome.kind = "raised"
    /\ sends = 1
    /\ totalSends = 2

\* C4: delete with both id and q, or with neither, raises ValueError with the
\* transport never invoked; with exactly one of them it builds the message
\* <delete><id>ID</id></delete> or <delete><query>Q</query></delete> and
\* invokes the transport once, with that message (cleaned by sanitize) as body.
C4_DeletePrecondition ==
    call.op = "delete" =>
        IF IsNone(call.id) = IsNone(call.q)
        THEN /\ pc = "done"
             /\ outcome.kind = "raised"
             /\ outcome.error = "ValueError"
             /\ sends = 0
             /\ IsNone(request)
        ELSE /\ sends = 1
             /\ ~IsNone(message)
             /\ Get(message).tag = "delete"
             /\ Get(message).attr = None
             /\ Get(message).docs = <<>>
             /\ ~IsNone(call.id) => (Get(message).by = "id" /\ Get(message).text = Get(call.id))
             /\ ~IsNone(call.q) => (Get(message).by = "query" /\ Get(message).text = Get(call.q))
             /\ Req.method = "post"
             /\ Req.body.kind = "xml"
             /\ Get(Req.body.xml) =
                    [Get(message) EXCEPT !.text = SelectSeq(Get(message).text,
                        LAMBDA b : b \notin (0 .. 8) \cup {11, 12} \cup (14 .. 31))]

\* delete with both id and q has raised ValueError before any invocation
C4_Witness ==
    /\ call.op = "delete"
    /\ ~IsNone(call.id)
    /\ ~IsNone(call.q)
    /\ outcome.error = "ValueError"
    /\ totalSends = 0

\* C5: a connection failure and a timeout both surface as SolrError with a
\* message naming the target URL and the cause.
C5_TransportErrors ==
    (pc = "done" /\ signal \in {"timeout", "refused"}) =>
        /\ outcome.kind = "raised"
        /\ outcome.error = "SolrError"
        /\ outcome.msg.url = Some(Req.url)
        /\ outcome.msg.cause # ""

\* C6: a failure response with a 'reason' header R gives the message
\* '[Reason: R]' exactly, whatever its body and 'server' header.
C6_ReasonHeader ==
    (Answered /\ Resp.status # 200 /\ ~IsNone(Resp.reason)) =>
        /\ outcome.kind = "raised"
        /\ outcome.error = "SolrError"
        /\ outcome.msg.text = <<"[", "R", "e", "a", "s", "o", "n", ":", " ">> \o Get(Resp.reason) \o <<"]">>

\* a servlet-container failure page with a message paragraph came with a
\* reason header, and the message is the header's
C6_Witness ==
    /\ Answered
    /\ Resp.status = 404
    /\ Resp.reason = Some(C_NotFound)
    /\ ServerType(Resp.server) = "tomcat"
    /\ Resp.body.html.paras # <<>>
    /\ outcome.msg.text = C_ReasonOpen \o C_NotFound \o <<"]">>

RECURSIVE KeptFields(_)
\* the (name, text) pairs of the field elements a document is to give: none
\* for a null scalar, one per non-null entry of a list, in order
KeptFields(items) ==
    IF items = <<>> THEN <<>>
    ELSE LET key == Head(items)[1]
             value == Head(items)[2]
             these == IF key = T_boost THEN <<>>
                      ELSE IF value.t = "list"
                      THEN LET kept == SelectSeq(value.items,
                                   LAMBDA v : ~(v.t = "none" \/ (v.t = "unicode" /\ v.v = <<>>)))
                           IN [i \in 1 .. Len(kept) |-> <<key, _from_python(kept[i])>>]
                      ELSE IF value.t = "none" \/ (value.t = "unicode" /\ value.v = <<>>) THEN <<>>
                      ELSE << <<key, _from_python(value)>> >>
         IN these \o KeptFields(Tail(items))

\* C7: the add message holds no field element for a null or empty value: null
\* scalars are omitted, null entries of a list are omitted one by one and the
\* other entries kept in order.
C7_NullsOmitted ==
    (call.op = "add" /\ ~IsNone(message)) =>
        /\ Len(Get(message).docs) = Len(docs)
        /\ \A i \in 1 .. Len(docs) :
              LET fields == Get(message).docs[i].fields
              IN [j \in 1 .. Len(fields) |-> <<fields[j].name, fields[j].text>>] = KeptFields(docs[i])

\* the tokens the caller's explicit arguments put on the update path
ExplicitVar(name, arg) ==
    IF arg = "True" THEN <<name \o "=true">>
    ELSE IF arg = "False" THEN <<name \o "=false">>
    ELSE <<>>

\* C8: commit, waitFlush and waitSearcher are on the update path only when
\* the caller provided them, as 'true' or 'false'; a parameter left unset is
\* absent, and with all three unset the path has no query string.
C8_OnlyExplicit ==
    (call.op \in UpdateOps /\ ~IsNone(request)) =>
        Req.url.path.vars = ExplicitVar("commit", call.commit)
                            \o ExplicitVar("waitFlush", call.waitFlush)
                            \o ExplicitVar("waitSearcher", call.waitSearcher)

\* C8 as amended: commit is on the path unless the caller passed None for it
\* (left unset it is sent as commit=true, and commit and optimize always send
\* commit=true); waitFlush and waitSearcher are there only when provided.
C8_CommitDefaultsTrue ==
    (call.op \in UpdateOps /\ ~IsNone(request)) =>
        /\ Req.method = "post"
        /\ Req.url.path.literal = "update/"
        /\ Req.url.path.vars =
              (IF call.commit = "unset" THEN <<"commit=true">> ELSE ExplicitVar("commit", call.commit))
              \o ExplicitVar("waitFlush", call.waitFlush)
              \o ExplicitVar("waitSearcher", call.waitSearcher)

\* commit() with waitFlush=False and nothing else has sent commit=true
C8_Witness ==
    /\ call.op = "commit"
    /\ call.waitFlush = "False"
    /\ call.waitSearcher = "unset"
    /\ ~IsNone(request)
    /\ Req.url.path.vars = <<"commit=true", "waitFlush=false">>

RemovalSet == (0 .. 8) \cup {11, 12} \cup (14 .. 31)

\* C9: sanitize deletes exactly the bytes 0x00-0x08, 0x0B, 0x0C, 0x0E-0x1F and
\* keeps every other byte in order; sanitizing twice changes nothing more.
C9_Sanitize ==
    /\ ~IsNone(fixed) =>
          /\ Get(fixed) = SelectSeq(data, LAMBDA b : b \notin RemovalSet)
          /\ \A i \in 1 .. Len(Get(fixed)) : Get(fixed)[i] \notin RemovalSet
    /\ ~IsNone(refixed) => Get(refixed) = Get(fixed)

\* a payload of vertical tab, tab and 'h' has been sanitized twice
C9_Witness ==
    /\ data = <<11, 9, 104>>
    /\ fixed = Some(<<9, 104>>)
    /\ refixed = Some(<<9, 104>>)

\* C10: on the search and the more-like-this path a decoded envelope always
\* gives a Results value: no documents and 0 hits for a null or absent
\* 'response' section, else its 'docs' and 'numFound', a missing one
\* defaulting to empty / 0.
C10_EnvelopeDefaults ==
    (Answered /\ call.op \in {"search", "more_like_this"} /\ Resp.status = 200 /\ ~IsNone(Resp.body.json)) =>
        LET env == Get(Resp.body.json) IN
        /\ outcome.kind = "returned"
        /\ outcome.value.kind = "results"
        /\ outcome.value.docs =
              (IF env.response = "present" /\ ~IsNone(env.docs) THEN Get(env.docs) ELSE <<>>)
        /\ outcome.value.hits =
              (IF env.response = "present" /\ ~IsNone(env.numFound) THEN Get(env.numFound) ELSE 0)

\* C11: _to_python reduces an array to its first element: for a non-empty
\* list or tuple A, _to_python(A) is _to_python(A[0]); and _to_python of an
\* array, the empty one included, does not raise.
C11_ArrayToFirst ==
    (~IsNone(native) /\ wire.t \in {"list", "tuple"}) =>
        /\ Get(native).raised = ""
        /\ wire.items # <<>> => Get(native) = _to_python(wire.items[1])

\* what a piece of text is to become: the character of a reference that
\* resolves, and the piece itself otherwise
Resolved(piece) ==
    IF piece \in {C_amp} THEN <<"&">>
    ELSE IF piece = C_lt THEN <<"<">>
    ELSE IF piece \in {C_dec_d, C_hex_d} THEN <<"d">>
    ELSE IF piece = C_hex_D_upper THEN <<"J">>
    ELSE IF piece = C_dec_149 THEN <<"U+149">>
    ELSE piece

\* C12: unescape_html never raises; it replaces each numeric reference and
\* each known named entity by its character, leaves each reference that does
\* not resolve (unknown name, no number, a number beyond the last code point,
\* however large) as it is, and leaves the text outside references unchanged.
C12_UnescapeTotal ==
    ~IsNone(plain) =>
        /\ Get(plain).raised = ""
        /\ Get(plain).text = Flatten([i \in 1 .. Len(markup) |-> Resolved(markup[i])])

\* a failure response has been answered to the call
Failed == Answered /\ Resp.status \notin 200 .. 299
\* the 'server' header holds the word, whatever its case
Names(word, server) == Contains(word, LowerText(server))

\* C13: for a failure response with no 'reason' header whose body parses as
\* XML, the reason is the text of the pre element under body when the
\* 'server' header holds 'jetty', and the text of the title element under
\* head for a generic server; when that element is there with a text, the
\* message is '[Reason: <that text>]' exactly.
C13_PreOrTitle ==
    (Failed /\ IsNone(Resp.reason) /\ ~IsNone(Resp.body.xml)
       /\ (Names(C_jetty, Resp.server) \/ ~Names(C_coyote, Resp.server))) =>
        LET dom_tree == Get(Resp.body.xml)
            node == IF Names(C_jetty, Resp.server) THEN dom_tree.pre ELSE dom_tree.title
        IN (~IsNone(node) /\ ~IsNone(Get(node))) =>
              /\ outcome.kind = "raised"
              /\ outcome.error = "SolrError"
              /\ outcome.msg.text = <<"[", "R", "e", "a", "s", "o", "n", ":", " ">> \o Get(Get(node)) \o <<"]">>

\* C13 as amended: the same, for a 'server' header that holds 'jetty' and
\* not 'coyote' (pre under body) or neither of them (title under head); a
\* header that holds 'coyote' is read as the servlet container's, also when
\* it holds 'jetty' too.
C13_PreOrTitleUnlessCoyote ==
    (Failed /\ IsNone(Resp.reason) /\ ~IsNone(Resp.body.xml) /\ ~Names(C_coyote, Resp.server)) =>
        LET dom_tree == Get(Resp.body.xml)
            node == IF Names(C_jetty, Resp.server) THEN dom_tree.pre ELSE dom_tree.title
        IN (~IsNone(node) /\ ~IsNone(Get(node))) =>
              /\ outcome.kind = "raised"
              /\ outcome.error = "SolrError"
              /\ outcome.msg.text = <<"[", "R", "e", "a", "s", "o", "n", ":", " ">> \o Get(Get(node)) \o <<"]">>

\* a jetty page with a title and <body><pre>boom</pre></body> and no reason
\* header has given '[Reason: boom]'
C13_Witness ==
    /\ Failed
    /\ IsNone(Resp.reason)
    /\ Names(C_jetty, Resp.server) /\ ~Names(C_coyote, Resp.server)
    /\ ~IsNone(Resp.body.xml)
    /\ Get(Resp.body.xml).pre = Some(Some(C_boom))
    /\ Get(Resp.body.xml).title = Some(Some(C_Error_404))
    /\ outcome.msg.text = <<"[", "R", "e", "a", "s", "o", "n", ":", " ", "b", "o", "o", "m", "]">>

\* C14: for every failure response, whatever the server and however
\* malformed or empty the body, the extraction completes and the caller
\* gets the request-failed error (SolrError) with its message; no other
\* exception escapes the extractor.
C14_ExtractionCompletes ==
    Failed =>
        /\ outcome.kind = "raised"
        /\ outcome.error = "SolrError"
        /\ outcome.msg.text # <<>>

\* the paragraphs with two children or more whose first child's text holds
\* 'message', in document order
MessageParagraphs(paras) ==
    SelectSeq(paras, LAMBDA p : Len(p) >= 2 /\ ~IsNone(p[1]) /\ Contains(C_message, LowerText(Get(p[1]))))

\* C15: for the servlet container, the reason is the text of the child after
\* the first child of the FIRST paragraph whose first child's text holds
\* 'message'; with no such paragraph the reason is absent and the message
\* falls back to the cleaned rendering of the whole body.  (Stated for pages
\* whose paragraphs' first children all have a text.)
C15_FirstMessageParagraph ==
    (Failed /\ IsNone(Resp.reason) /\ Names(C_coyote, Resp.server)
       /\ Resp.body.html.parses /\ Resp.body.html.hasBody
       /\ \A i \in 1 .. Len(Resp.body.html.paras) :
             Len(Resp.body.html.paras[i]) >= 2 => ~IsNone(Resp.body.html.paras[i][1])) =>
        LET hits == MessageParagraphs(Resp.body.html.paras) IN
        /\ outcome.kind = "raised"
        /\ outcome.error = "SolrError"
        /\ (hits # <<>> /\ ~IsNone(hits[1][2])) =>
              outcome.msg.text = <<"[", "R", "e", "a", "s", "o", "n", ":", " ">> \o Get(hits[1][2]) \o <<"]">>
        /\ hits = <<>> =>
              outcome.msg.text = <<"[", "R", "e", "a", "s", "o", "n", ":", " ", "N", "o", "n", "e", "]", "\n">>
                                 \o unescape_html(CleanFullHtml(Resp.body.html.clean)).text

\* the reason found for a response: the header's, or else the scraped one
FoundReason == IF ~IsNone(Resp.reason) THEN Resp.reason ELSE _scrape_response(Resp.server, Resp.body).reason
NoReasonHead == <<"[", "R", "e", "a", "s", "o", "n", ":", " ", "N", "o", "n", "e", "]", "\n">>
Tidy(text) ==
    /\ \A i \in 1 .. Len(text) : text[i] \notin {"\n", "\r"}
    /\ text = <<>> \/ (text[1] \notin Whitespace /\ text[Len(text)] \notin Whitespace)

\* C16: the message has one of two shapes: '[Reason: <reason>]' and nothing
\* more when a reason was found; '[Reason: None]', a newline and the dump of
\* the body when none was, the dump holding no newline, no carriage return,
\* no '<br/>' or '<br />' and no leading or trailing whitespace.
C16_MessageShape ==
    (Failed /\ outcome.kind = "raised" /\ outcome.error = "SolrError") =>
        LET msg == outcome.msg.text
            dump == SubSeq(msg, Len(NoReasonHead) + 1, Len(msg))
        IN IF ~IsNone(FoundReason)
           THEN msg = <<"[", "R", "e", "a", "s", "o", "n", ":", " ">> \o Get(FoundReason) \o <<"]">>
           ELSE /\ Len(msg) >= Len(NoReasonHead)
                /\ SubSeq(msg, 1, Len(NoReasonHead)) = NoReasonHead
                /\ Tidy(dump)
                /\ ~Contains(C_br, dump)
                /\ ~Contains(C_br_space, dump)

\* C16 as amended: with no reason found the message is '[Reason: None]', a
\* newline and the dump with its references unescaped; it is the dump before
\* the unescaping that holds no newline, no carriage return and no leading
\* or trailing whitespace (its '<br/>' and '<br />' have been removed in one
\* pass each, so one formed by a removal or written with references stays).
C16_ShapeBeforeUnescape ==
    (Failed /\ outcome.kind = "raised" /\ outcome.error = "SolrError") =>
        LET msg == outcome.msg.text
            full_html == _scrape_response(Resp.server, Resp.body).full_html
        IN IF ~IsNone(FoundReason)
           THEN msg = <<"[", "R", "e", "a", "s", "o", "n", ":", " ">> \o Get(FoundReason) \o <<"]">>
           ELSE /\ Tidy(full_html)
                /\ msg = NoReasonHead \o unescape_html(full_html).text

\* a body that is no XML and ends with the reference &#10; has given a
\* message whose dump ends with the newline the reference stands for
C16_Witness ==
    /\ Failed
    /\ IsNone(Resp.reason)
    /\ Resp.body.raw = <<"x", "&", "#", "1", "0", ";">>
    /\ ~Names(C_coyote, Resp.server)
    /\ outcome.msg.text = NoReasonHead \o <<"x", "\n">>

RECURSIVE Emitted(_)
\* what the field elements of a document stand for, as (field name, value,
\* whether the value is an entry of a list): one per entry of a list, one for
\* a scalar that is not null
Emitted(items) ==
    IF items = <<>> THEN <<>>
    ELSE LET key == Head(items)[1]
             value == Head(items)[2]
             these == IF key = T_boost THEN <<>>
                      ELSE IF value.t = "list" THEN [i \in 1 .. Len(value.items) |-> <<key, value.items[i], TRUE>>]
                      ELSE IF value.t = "none" \/ (value.t = "unicode" /\ value.v = <<>>) THEN <<>>
                      ELSE << <<key, value, FALSE>> >>
         IN these \o Emitted(Tail(items))

\* the weight the boost mapping holds for a text, if any
BoostFor(text) ==
    IF boost.given /\ text \in DOMAIN boost.map THEN Some(boost.map[text].v) ELSE None

\* C17: the boost attribute of each field element of an add message is
\* looked up by the entry's value and then by the field's name: for an entry
\* of a multi-valued field the entry's own weight when the mapping has one,
\* else the weight of the field name when the mapping has one, and no
\* attribute only when it has neither.  (Stated for the field elements of
\* values that are not null.)
C17_EntryThenFieldName ==
    (call.op = "add" /\ ~IsNone(message)) =>
        \A i \in 1 .. Len(docs) :
            LET fields == Get(message).docs[i].fields
                emitted == Emitted(docs[i])
            IN /\ Len(fields) = Len(emitted)
               /\ \A j \in 1 .. Len(fields) :
                     LET name == emitted[j][1]
                         entry == emitted[j][2]
                         byEntry == IF emitted[j][3] /\ entry.t \in {"unicode", "str"}
                                    THEN BoostFor(entry.v) ELSE None
                     IN ~(entry.t = "none" \/ (entry.t = "unicode" /\ entry.v = <<>>)) =>
                           fields[j].boost = (IF ~IsNone(byEntry) THEN byEntry ELSE BoostFor(name))

\* C18: a call changes nothing that outlives it: the documents and the boost
\* mapping the caller handed to add (the type and value of every weight
\* included) are after each step what they were before it.
C18_ArgumentsUnchanged == [][docs' = docs /\ boost' = boost]_vars

====
